---------------------------- MODULE Spec2Model ----------------------------
(***************************************************************************)
(* Model of the CommonAssessmentTool client service                        *)
(* (src/app/clients/service/client_service.py, src/app/clients/schema.py). *)
(*                                                                         *)
(* The record store holds Client rows and ClientCase rows.  A column value *)
(* is optional: None is the empty tuple and a set value v is <<v>>, so     *)
(* that a NULL column compares unequal to every supplied value.            *)
(***************************************************************************)
EXTENDS Integers, Sequences, FiniteSets, TLC

VARIABLES
    clients,   \* committed Client table: id -> row
    cases,     \* committed ClientCase table: <<client_id, user_id>> -> rows
    nextId,    \* the id the store assigns to the next created client
    last,      \* the last service call: operation, arguments and outcome
    result,    \* what the last call returned (ids or rows), <<>> on failure
    criteria,  \* the ClientFilters of the last search by criteria
    reqs       \* concurrent create_case_assignment requests in flight

vars == <<clients, cases, nextId, last, result, criteria, reqs>>

(***************************************************************************)
(* Bounds of the model.                                                    *)
(***************************************************************************)
MaxClients == 2      \* clients ever created in one behaviour
MaxUsers == 2        \* case workers known to the store
MaxRequests == 2     \* concurrent requests in the interleaved specification

ClientIds == 1..MaxClients
UserIds == 1..MaxUsers
\* ids a caller may supply: a client id is absent from the store before it
\* is assigned and after its client is deleted; one user id is never known
ClientIdArgs == ClientIds
UserIdArgs == 1..(MaxUsers + 1)

None == <<>>
Some(v) == <<v>>
IsNone(x) == x = None
Val(x) == x[1]

(***************************************************************************)
(* Columns.                                                                *)
(***************************************************************************)
AssessmentFields ==
    {"age", "gender", "work_experience", "canada_workex", "dep_num",
     "canada_born", "citizen_status", "level_of_schooling", "fluent_english",
     "reading_english_scale", "speaking_english_scale",
     "writing_english_scale", "numeracy_scale", "computer_scale",
     "transportation_bool", "caregiver_bool", "housing", "income_source",
     "felony_bool", "attending_school", "currently_employed",
     "substance_use", "time_unemployed", "need_mental_health_support_bool"}

ClientFields == AssessmentFields \cup {"current_model"}

ServiceFlags ==
    {"employment_assistance", "life_stabilization", "retention_services",
     "specialized_services", "employment_related_financial_supports",
     "employer_financial_supports", "enhanced_referrals"}

CaseFields == ServiceFlags \cup {"success_rate"}

\* Client(): a new row before any attribute is set
NewClient == [f \in ClientFields |-> None]

\* ClientCase(client_id=.., user_id=.., <flags>=False, success_rate=0)
NewCase ==
    [f \in CaseFields |-> IF f = "success_rate" THEN Some(0) ELSE Some(FALSE)]

\* update_model_instance: setattr(instance, field, value) for each item
SetAttrsNoop(instance, update_data) == instance
SetAttrsResetsAbsent(instance, update_data) ==
    [f \in DOMAIN instance |->
        IF f \in DOMAIN update_data THEN update_data[f] ELSE None]
SetAttrsOnce(instance, update_data) ==
    [f \in DOMAIN instance |->
        IF /\ f \in DOMAIN update_data
           /\ \/ instance[f] = None
              \/ f = "success_rate" /\ instance[f] = Some(0)
              \/ f \in ServiceFlags /\ instance[f] = Some(FALSE)
        THEN update_data[f] ELSE instance[f]]
SetAttrs(instance, update_data) ==
    [f \in DOMAIN instance |->
        IF f \in DOMAIN update_data THEN update_data[f] ELSE instance[f]]


(***************************************************************************)
(* The record store as one value, and the outcome of a service call.       *)
(***************************************************************************)
Db == [clients |-> clients, cases |-> cases]

\* a normal return
Returned == [code |-> 200, exc |-> "none", detail |-> ""]
\* raise HTTPException(status_code=code, detail=detail)
HTTPException(code, detail) ==
    [code |-> code, exc |-> "HTTPException", detail |-> detail]
\* an exception that is no HTTPException leaves the service uncaught; the
\* framework answers it with a bare 500
Uncaught(name) == [code |-> 500, exc |-> name, detail |-> ""]

Outcome(db, resp, ret) == [db |-> db, resp |-> resp, ret |-> ret]

\* db.rollback(): the pending changes of the session are discarded
RollbackKeepsPending(committed, pending) == pending
Rollback(committed, pending) == committed

\* try: db.commit() ... except Exception: db.rollback(); raise HTTPException(500)
CommitNoRaise(db, pending, ok, ret, detail) ==
    IF ok THEN Outcome(pending, Returned, ret)
          ELSE Outcome(Rollback(db, pending), Returned, ret)
CommitOrRollback(db, pending, ok, ret, detail) ==
    IF ok THEN Outcome(pending, Returned, ret)
          ELSE Outcome(Rollback(db, pending), HTTPException(500, detail), <<>>)

(***************************************************************************)
(* Helper methods of ClientService.                                        *)
(***************************************************************************)
\* db.query(Client).filter(Client.id == client_id).first()
ClientFound(db, client_id) == client_id \in DOMAIN db.clients

\* db.query(User).filter(User.id == user_id).first()
CaseworkerFoundAlways(user_id) == TRUE
CaseworkerFound(user_id) == user_id \in UserIds

\* the ClientCase rows of one (client_id, user_id) pair
CaseRows(db, client_id, user_id) ==
    IF <<client_id, user_id>> \in DOMAIN db.cases
    THEN db.cases[<<client_id, user_id>>] ELSE <<>>

\* db.query(ClientCase).filter_by(client_id=.., user_id=..).first()
FirstCaseNever(db, client_id, user_id) == None
FirstCase(db, client_id, user_id) ==
    IF Len(CaseRows(db, client_id, user_id)) > 0
    THEN Some(Head(CaseRows(db, client_id, user_id))) ELSE None

\* the rows of the ClientCase table; n tells apart the rows of one pair
RowsAt(db, p) ==
    {[client_id |-> p[1], user_id |-> p[2], n |-> i, row |-> db.cases[p][i]] :
        i \in 1..Len(db.cases[p])}

AllCases(db) == UNION {RowsAt(db, p) : p \in DOMAIN db.cases}

\* db.query(ClientCase).filter(ClientCase.client_id == client_id).all()
CasesOfAnyClient(db, client_id) == AllCases(db)
CasesOfClient(db, client_id) == {r \in AllCases(db) : r.client_id = client_id}

(***************************************************************************)
(* ClientFilters (schema.py): the criteria registry and build_filter.      *)
(***************************************************************************)
\* a registry entry: a column, compared by equality, or a callable
Column(name) == [kind |-> "column", column |-> name, op |-> "=="]
Callable(name, op) == [kind |-> "callable", column |-> name, op |-> op]

\* the keys of field_map in the order the dict literal lists them
FieldMapKeys ==
    <<"employment_status", "age_min", "gender", "education_level",
      "work_experience", "canada_workex", "dep_num", "canada_born",
      "citizen_status", "fluent_english", "reading_english_scale",
      "speaking_english_scale", "writing_english_scale", "numeracy_scale",
      "computer_scale", "transportation_bool", "caregiver_bool", "housing",
      "income_source", "felony_bool", "attending_school", "substance_use",
      "time_unemployed", "need_mental_health_support_bool", "current_model">>

Criteria == {FieldMapKeys[i] : i \in DOMAIN FieldMapKeys}

\* self.field_map
FieldMapAgeByEquality(key) ==
    CASE key = "employment_status" -> Column("currently_employed")
      [] key = "age_min" -> Column("age")
      [] key = "education_level" -> Column("level_of_schooling")
      [] OTHER -> Column(key)
FieldMap(key) ==
    CASE key = "employment_status" -> Column("currently_employed")
      [] key = "age_min" -> Callable("age", ">=")
      [] key = "education_level" -> Column("level_of_schooling")
      [] OTHER -> Column(key)

\* one element of the filter list: the SQL expression an entry generates
Predicate(entry, value) ==
    [column |-> entry.column, op |-> entry.op, value |-> value]

\* build_filter: one predicate per criterion that is not None, in the
\* order in which the registry is iterated
RECURSIVE build_filter_keeps_none(_, _)
build_filter_keeps_none(self, order) ==
    IF order = <<>> THEN <<>>
    ELSE <<Predicate(FieldMap(Head(order)), self[Head(order)])>>
             \o build_filter_keeps_none(self, Tail(order))

RECURSIVE build_filter_skips_falsy(_, _)
build_filter_skips_falsy(self, order) ==
    IF order = <<>> THEN <<>>
    ELSE (IF \/ self[Head(order)] = None
             \/ Head(order) = "employment_status" /\ self[Head(order)] = Some(FALSE)
             \/ Head(order) \in {"dep_num", "reading_english_scale"}
                   /\ self[Head(order)] = Some(0)
          THEN <<>>
          ELSE <<Predicate(FieldMap(Head(order)), self[Head(order)])>>)
             \o build_filter_skips_falsy(self, Tail(order))

RECURSIVE build_filter(_, _)
build_filter(self, order) ==
    IF order = <<>> THEN <<>>
    ELSE (IF self[Head(order)] = None THEN <<>>
          ELSE <<Predicate(FieldMap(Head(order)), self[Head(order)])>>)
             \o build_filter(self, Tail(order))

\* a row satisfies an SQL comparison only if its column is not NULL
Holds(pred, row) ==
    /\ row[pred.column] # None
    /\ pred.value # None
    /\ IF pred.op = ">=" THEN Val(row[pred.column]) >= Val(pred.value)
                         ELSE row[pred.column] = pred.value

\* db.query(Client).filter(*preds).all(): the rows every predicate holds of
QueryClients(db, preds) ==
    {id \in DOMAIN db.clients :
        \A i \in DOMAIN preds : Holds(preds[i], db.clients[id])}

\* ClientService.validate_criteria
validate_criteria_no_gender(filters) ==
    IF filters["education_level"] # None
       /\ ~(1 <= Val(filters["education_level"])
            /\ Val(filters["education_level"]) <= 14)
    THEN HTTPException(400, "Education level must be between 1 and 14")
    ELSE IF filters["age_min"] # None /\ Val(filters["age_min"]) < 18
    THEN HTTPException(400, "Minimum age must be at least 18")
    ELSE Returned
validate_criteria_gender_first(filters) ==
    IF filters["gender"] # None /\ Val(filters["gender"]) \notin {1, 2}
    THEN HTTPException(400, "Gender must be 1 or 2")
    ELSE IF filters["age_min"] # None /\ Val(filters["age_min"]) < 18
    THEN HTTPException(400, "Minimum age must be at least 18")
    ELSE IF filters["education_level"] # None
            /\ ~(1 <= Val(filters["education_level"])
                 /\ Val(filters["education_level"]) <= 14)
    THEN HTTPException(400, "Education level must be between 1 and 14")
    ELSE Returned
validate_criteria(filters) ==
    IF filters["education_level"] # None
       /\ ~(1 <= Val(filters["education_level"])
            /\ Val(filters["education_level"]) <= 14)
    THEN HTTPException(400, "Education level must be between 1 and 14")
    ELSE IF filters["age_min"] # None /\ Val(filters["age_min"]) < 18
    THEN HTTPException(400, "Minimum age must be at least 18")
    ELSE IF filters["gender"] # None /\ Val(filters["gender"]) \notin {1, 2}
    THEN HTTPException(400, "Gender must be 1 or 2")
    ELSE Returned

\* ClientService.get_clients_by_criteria; order: the iteration order of
\* field_map
get_clients_by_criteria(db, filters, order) ==
    IF validate_criteria(filters) # Returned
    THEN Outcome(db, validate_criteria(filters), <<>>)
    ELSE Outcome(db, Returned, QueryClients(db, build_filter(filters, order)))

(***************************************************************************)
(* Public operations of ClientService.  Each takes the committed store and *)
(* the call's inputs (ok: whether db.commit() succeeds) and yields the     *)
(* store after the call, the outcome and the returned value.               *)
(***************************************************************************)
NotFoundClientNameError == Uncaught("NameError")
NotFoundClient == HTTPException(404, "Client not found")
NotFoundCaseworker == HTTPException(404, "Case worker not found")

get_client(db, client_id) ==
    IF ~ClientFound(db, client_id) THEN Outcome(db, NotFoundClient, <<>>)
    ELSE Outcome(db, Returned, db.clients[client_id])

get_client_services(db, client_id) ==
    IF CasesOfClient(db, client_id) = {}
    THEN Outcome(db, HTTPException(404, "No services found for client"), <<>>)
    ELSE Outcome(db, Returned, CasesOfClient(db, client_id))

create_client(db, id, client_create, ok) ==
    LET client == SetAttrs(NewClient, client_create)
        pending == [db EXCEPT !.clients = (id :> client) @@ db.clients]
    IN  CommitOrRollback(db, pending, ok, id, "Failed to create client")

update_client(db, client_id, client_update, ok) ==
    IF ~ClientFound(db, client_id) THEN Outcome(db, NotFoundClient, <<>>)
    ELSE LET pending ==
                 [db EXCEPT !.clients[client_id] = SetAttrs(@, client_update)]
         IN  CommitOrRollback(db, pending, ok, pending.clients[client_id],
                              "Failed to update client")

\* get_case_or_404nf: the raise names HTTP_404_NOT_FOUND, which the module
\* never imports (only fastapi.status is), so evaluating it is a NameError
get_case_or_404nf(db, client_id, user_id) ==
    IF FirstCase(db, client_id, user_id) = None
    THEN Uncaught("NameError") ELSE Returned

update_client_services(db, client_id, user_id, service_update, ok) ==
    IF get_case_or_404nf(db, client_id, user_id) # Returned
    THEN Outcome(db, get_case_or_404nf(db, client_id, user_id), <<>>)
    ELSE LET pending ==
                 [db EXCEPT !.cases[<<client_id, user_id>>][1] =
                                SetAttrs(@, service_update)]
         IN  CommitOrRollback(db, pending, ok,
                              pending.cases[<<client_id, user_id>>][1],
                              "Failed to update client services")

\* db.add(new_case): one more row for the pair
AddCaseTwice(db, client_id, user_id) ==
    [db EXCEPT !.cases[<<client_id, user_id>>] = @ \o <<NewCase, NewCase>>]
AddCase(db, client_id, user_id) ==
    [db EXCEPT !.cases[<<client_id, user_id>>] = Append(@, NewCase)]

create_case_assignment(db, client_id, case_worker_id, ok) ==
    IF ~ClientFound(db, client_id) THEN Outcome(db, NotFoundClient, <<>>)
    ELSE IF ~CaseworkerFound(case_worker_id)
    THEN Outcome(db, NotFoundCaseworker, <<>>)
    ELSE IF FirstCase(db, client_id, case_worker_id) # None
    THEN Outcome(db, HTTPException(400, "Client already has a case assigned to case worker"), <<>>)
    ELSE CommitOrRollback(db, AddCase(db, client_id, case_worker_id), ok,
                          NewCase, "Failed to create case assignment")

\* db.query(ClientCase).filter_by(client_id=client_id).delete()
DeleteCasesOfNone(db, client_id) == db
DeleteCasesOf(db, client_id) ==
    [db EXCEPT !.cases =
        [p \in DOMAIN db.cases |-> IF p[1] = client_id THEN <<>> ELSE db.cases[p]]]

\* db.delete(client)
DeleteClientRow(db, client_id) ==
    [db EXCEPT !.clients =
        [i \in DOMAIN db.clients \ {client_id} |-> db.clients[i]]]

delete_client(db, client_id, ok) ==
    IF ~ClientFound(db, client_id) THEN Outcome(db, NotFoundClient, <<>>)
    ELSE CommitOrRollback(db,
             DeleteClientRow(DeleteCasesOf(db, client_id), client_id),
             ok, <<>>, "Failed to delete client")

\* get_available_models(): the names of the .pkl files of the models
\* directory; the names the training script offers
get_available_models == {"RandomForest", "GradientBoosting", "SupportVector"}

set_model_checks_registry(db, client_id, new_model, ok) ==
    IF ~ClientFound(db, client_id) THEN Outcome(db, NotFoundClient, <<>>)
    ELSE IF new_model = None \/ Val(new_model) \notin get_available_models
    THEN Outcome(db, HTTPException(400, "Unknown model"), <<>>)
    ELSE CommitOrRollback(db,
             [db EXCEPT !.clients[client_id]["current_model"] = new_model],
             ok, new_model, "Failed to update client services")
set_model(db, client_id, new_model, ok) ==
    IF ~ClientFound(db, client_id) THEN Outcome(db, NotFoundClient, <<>>)
    ELSE CommitOrRollback(db,
             [db EXCEPT !.clients[client_id]["current_model"] = new_model],
             ok, new_model, "Failed to update client services")

(***************************************************************************)
(* Inputs of the service calls: payloads the request schemas accept.       *)
(***************************************************************************)
\* the example body of ClientBase, without current_model (ClientCreate has
\* no such field)
ExampleClient ==
    [f \in AssessmentFields |->
        CASE f = "age" -> Some(25)
          [] f = "gender" -> Some(1)
          [] f = "work_experience" -> Some(3)
          [] f = "canada_workex" -> Some(2)
          [] f = "dep_num" -> Some(1)
          [] f = "level_of_schooling" -> Some(8)
          [] f = "reading_english_scale" -> Some(8)
          [] f = "speaking_english_scale" -> Some(7)
          [] f = "writing_english_scale" -> Some(7)
          [] f = "numeracy_scale" -> Some(8)
          [] f = "computer_scale" -> Some(9)
          [] f = "housing" -> Some(5)
          [] f = "income_source" -> Some(3)
          [] f = "time_unemployed" -> Some(6)
          [] f \in {"citizen_status", "fluent_english", "transportation_bool"}
                -> Some(TRUE)
          [] OTHER -> Some(FALSE)]

\* a sparse ClientCreate body
SparseClient == ("age" :> Some(18)) @@ ("gender" :> Some(2))

\* ClientCreate bodies
CreatePayloads == {ExampleClient}

\* ClientUpdate bodies (exclude_unset: only the fields that were sent)
UpdatePayloads ==
    {("age" :> Some(40)) @@ ("current_model" :> Some("GradientBoosting"))}

\* ServiceUpdate bodies
ServicePayloads ==
    {("employment_assistance" :> Some(TRUE)) @@ ("success_rate" :> Some(80))}

\* ModelUpdate.new_model: a name no artifact has
ModelNames == {Some("NoSuchModel")}

(***************************************************************************)
(* Initial state: an empty store.                                          *)
(***************************************************************************)
NoCall == [op |-> "none", cid |-> 0, wid |-> 0, resp |-> Returned]

Init ==
    /\ clients = <<>>
    /\ cases = [p \in ClientIds \X UserIds |-> <<>>]
    /\ nextId = 1
    /\ last = NoCall
    /\ result = <<>>
    /\ criteria = <<>>
    /\ reqs = <<>>

\* the store and the response after a call whose outcome is r
Apply(r, op, cid, wid) ==
    /\ clients' = r.db.clients
    /\ cases' = r.db.cases
    /\ last' = [op |-> op, cid |-> cid, wid |-> wid, resp |-> r.resp]
    /\ result' = r.ret
    /\ UNCHANGED criteria

(***************************************************************************)
(* One action per service operation, each one atomic unit of work.         *)
(***************************************************************************)
CreateClient ==
    /\ nextId <= MaxClients
    /\ \E data \in CreatePayloads, ok \in BOOLEAN :
          /\ Apply(create_client(Db, nextId, data, ok), "create_client", nextId, 0)
          /\ nextId' = IF ok THEN nextId + 1 ELSE nextId
    /\ UNCHANGED reqs

UpdateClient ==
    /\ \E c \in ClientIdArgs, data \in UpdatePayloads, ok \in BOOLEAN :
          Apply(update_client(Db, c, data, ok), "update_client", c, 0)
    /\ UNCHANGED <<nextId, reqs>>

UpdateClientServices ==
    /\ \E c \in ClientIdArgs, w \in UserIdArgs, data \in ServicePayloads,
          ok \in BOOLEAN :
          Apply(update_client_services(Db, c, w, data, ok),
                "update_client_services", c, w)
    /\ UNCHANGED <<nextId, reqs>>

CreateCaseAssignment ==
    /\ \E c \in ClientIdArgs, w \in UserIdArgs, ok \in BOOLEAN :
          Apply(create_case_assignment(Db, c, w, ok),
                "create_case_assignment", c, w)
    /\ UNCHANGED <<nextId, reqs>>

DeleteClient ==
    /\ \E c \in ClientIdArgs, ok \in BOOLEAN :
          Apply(delete_client(Db, c, ok), "delete_client", c, 0)
    /\ UNCHANGED <<nextId, reqs>>

SetModel ==
    /\ \E c \in ClientIdArgs, m \in ModelNames, ok \in BOOLEAN :
          Apply(set_model(Db, c, m, ok), "set_model", c, 0)
    /\ UNCHANGED <<nextId, reqs>>

GetClient ==
    /\ \E c \in ClientIdArgs : Apply(get_client(Db, c), "get_client", c, 0)
    /\ UNCHANGED <<nextId, reqs>>

GetClientServices ==
    /\ \E c \in ClientIdArgs :
          Apply(get_client_services(Db, c), "get_client_services", c, 0)
    /\ UNCHANGED <<nextId, reqs>>

Next ==
    \/ CreateClient
    \/ UpdateClient
    \/ UpdateClientServices
    \/ CreateCaseAssignment
    \/ DeleteClient
    \/ SetModel
    \/ GetClient
    \/ GetClientServices

Spec == Init /\ [][Next]_vars

(***************************************************************************)
(* Searching by criteria.  The store is drawn from the stores that         *)
(* create_client, update_client and set_model can build, the request from  *)
(* the ClientFilters below; the step is the call of                        *)
(* get_clients_by_criteria that serves the request.                        *)
(***************************************************************************)
\* rows a client can have after create_client and later updates
SampleRows ==
    {SetAttrs(NewClient, ExampleClient @@ ("current_model" :> Some("RandomForest"))),
     SetAttrs(NewClient,
              ("age" :> Some(18)) @@ ("gender" :> Some(2))
              @@ ("currently_employed" :> Some(TRUE)) @@ ("dep_num" :> Some(0))
              @@ ("level_of_schooling" :> Some(14)) @@ ExampleClient),
     SetAttrs(NewClient, SparseClient),
     SetAttrs(NewClient, ("age" :> Some(40)) @@ ExampleClient),
     SetAttrs(NewClient,
              ("reading_english_scale" :> Some(0)) @@ ("dep_num" :> Some(0))
              @@ ExampleClient)}

\* ClientFilters(...) objects: every criterion has a value or None (absent).
\* Six criteria take values, among them values outside the three bounds;
\* FullFilter supplies all 25 criteria, with the values of the example client.
FullFilter ==
    [k \in Criteria |->
        CASE k = "employment_status" -> ExampleClient["currently_employed"]
          [] k = "age_min" -> ExampleClient["age"]
          [] k = "education_level" -> ExampleClient["level_of_schooling"]
          [] k = "current_model" -> Some("RandomForest")
          [] OTHER -> ExampleClient[k]]

SampleFilters ==
    {FullFilter} \cup
    {f @@ [k \in Criteria |-> None] :
        f \in {("reading_english_scale" :> Some(0)),
               ("employment_status" :> Some(FALSE)) @@ ("dep_num" :> Some(0))
                   @@ ("reading_english_scale" :> Some(0))}} \cup
    {f @@ [k \in Criteria |-> None] :
        f \in [employment_status : {None, Some(TRUE), Some(FALSE)},
               age_min : {None, Some(17), Some(18), Some(30)},
               gender : {None, Some(1), Some(2), Some(3)},
               education_level : {None, Some(0), Some(8), Some(14), Some(15)},
               dep_num : {None, Some(0), Some(1)},
               current_model : {None, Some("RandomForest")}]}

Reverse(seq) == [i \in DOMAIN seq |-> seq[Len(seq) + 1 - i]]

\* iteration orders of the registry: the dict's own, and two others
RegistryOrders ==
    {FieldMapKeys, Reverse(FieldMapKeys),
     Tail(FieldMapKeys) \o <<Head(FieldMapKeys)>>}

\* a store and a search request that has not been served yet
InitFilter ==
    /\ \E n \in 0..MaxClients : clients \in [1..n -> SampleRows] /\ nextId = n + 1
    /\ cases = [p \in ClientIds \X UserIds |-> <<>>]
    /\ last = NoCall
    /\ result = <<>>
    /\ criteria \in SampleFilters
    /\ reqs = <<>>

\* the request is served: one call of get_clients_by_criteria
GetClientsByCriteria ==
    /\ last = NoCall
    /\ \E order \in RegistryOrders :
          /\ clients' = get_clients_by_criteria(Db, criteria, order).db.clients
          /\ cases' = get_clients_by_criteria(Db, criteria, order).db.cases
          /\ last' = [op |-> "get_clients_by_criteria", cid |-> 0, wid |-> 0,
                      resp |-> get_clients_by_criteria(Db, criteria, order).resp]
          /\ result' = get_clients_by_criteria(Db, criteria, order).ret
    /\ UNCHANGED <<nextId, criteria, reqs>>

NextFilter == GetClientsByCriteria

SpecFilter == InitFilter /\ [][NextFilter]_vars

(***************************************************************************)
(* Concurrent create_case_assignment calls.  Each request runs the         *)
(* statements of the method one at a time against the shared store: the    *)
(* three reads, then db.add and db.commit.  The ClientCase table is        *)
(* declared outside the service; its identity is the (client_id, user_id)  *)
(* pair, so the store refuses a commit that would give a pair two rows.    *)
(***************************************************************************)
Requests == 1..MaxRequests

Idle == [pc |-> "idle", cid |-> 0, wid |-> 0, resp |-> Returned]

\* the composite identity of ClientCase: one row per (client_id, user_id)
StoreAccepts(pending) ==
    \A p \in DOMAIN pending.cases : Len(pending.cases[p]) <= 1

InitConc ==
    /\ clients = <<>>
    /\ cases = [p \in ClientIds \X UserIds |-> <<>>]
    /\ nextId = 1
    /\ last = NoCall
    /\ result = <<>>
    /\ criteria = <<>>
    /\ reqs = [r \in Requests |-> Idle]

Goto(r, pc) == reqs' = [reqs EXCEPT ![r].pc = pc]
Finish(r, resp) == reqs' = [reqs EXCEPT ![r].pc = "done", ![r].resp = resp]

\* a request arrives: POST /clients/{client_id}/case-assignment
Call(r) ==
    /\ reqs[r].pc = "idle"
    /\ \E c \in ClientIdArgs, w \in UserIdArgs :
          reqs' = [reqs EXCEPT ![r] =
                      [pc |-> "get_client", cid |-> c, wid |-> w, resp |-> Returned]]
    /\ UNCHANGED <<clients, cases, nextId, last, result, criteria>>

\* client = ClientService.get_client_or_404nf(db, client_id)
StepGetClient(r) ==
    /\ reqs[r].pc = "get_client"
    /\ IF ClientFound(Db, reqs[r].cid)
       THEN Goto(r, "get_caseworker") ELSE Finish(r, NotFoundClient)
    /\ UNCHANGED <<clients, cases, nextId, last, result, criteria>>

\* case_worker = ClientService.get_caseworker_or_404nf(db, case_worker_id)
StepGetCaseworker(r) ==
    /\ reqs[r].pc = "get_caseworker"
    /\ IF CaseworkerFound(reqs[r].wid)
       THEN Goto(r, "existing") ELSE Finish(r, NotFoundCaseworker)
    /\ UNCHANGED <<clients, cases, nextId, last, result, criteria>>

\* existing = db.query(ClientCase).filter_by(...).first(); if existing: raise
StepExisting(r) ==
    /\ reqs[r].pc = "existing"
    /\ IF FirstCase(Db, reqs[r].cid, reqs[r].wid) # None
       THEN Finish(r, HTTPException(400, "Client already has a case assigned to case worker"))
       ELSE Goto(r, "commit")
    /\ UNCHANGED <<clients, cases, nextId, last, result, criteria>>

\* db.add(new_case); db.commit(), or on an exception db.rollback() and 500
StepCommit(r) ==
    /\ reqs[r].pc = "commit"
    /\ \E ok \in BOOLEAN :
          LET pending == AddCase(Db, reqs[r].cid, reqs[r].wid)
              out == CommitOrRollback(Db, pending, ok /\ StoreAccepts(pending),
                                      NewCase, "Failed to create case assignment")
          IN  /\ clients' = out.db.clients
              /\ cases' = out.db.cases
              /\ Finish(r, out.resp)
    /\ UNCHANGED <<nextId, last, result, criteria>>

\* the response is sent and the worker serves the next request
Respond(r) ==
    /\ reqs[r].pc = "done"
    /\ reqs' = [reqs EXCEPT ![r] = Idle]
    /\ UNCHANGED <<clients, cases, nextId, last, result, criteria>>

NextConc ==
    \/ CreateClient
    \/ \E r \in Requests :
          \/ Call(r)
          \/ StepGetClient(r)
          \/ StepGetCaseworker(r)
          \/ StepExisting(r)
          \/ StepCommit(r)
          \/ Respond(r)

SpecConc == InitConc /\ [][NextConc]_vars

(***************************************************************************)
(* Partial updates of clients and the model binding.  The store is built   *)
(* by create_client, create_case_assignment and delete_client; the bodies  *)
(* below are ClientUpdate and ModelUpdate requests, with fields left out,  *)
(* fields sent, and fields sent as null.                                   *)
(***************************************************************************)
\* ClientService.get_current_model
get_current_model(db, client_id) ==
    IF ~ClientFound(db, client_id) THEN Outcome(db, NotFoundClient, <<>>)
    ELSE Outcome(db, Returned, db.clients[client_id]["current_model"])

\* client_update.dict(exclude_unset=True) of ClientUpdate bodies: no field,
\* a field sent as null, and fields sent with values
ClientUpdateBodies ==
    {<<>>,
     ("age" :> None),
     ("gender" :> Some(2)) @@ ("current_model" :> Some("SupportVector"))}

\* ModelUpdate.new_model: a name of the registry, a name no artifact has,
\* and null
ModelUpdateBodies == {Some("RandomForest"), Some("NoSuchModel"), None}

\* a call whose request body is data
ApplyWith(r, op, cid, wid, data) ==
    /\ clients' = r.db.clients
    /\ cases' = r.db.cases
    /\ last' = [op |-> op, cid |-> cid, wid |-> wid, resp |-> r.resp,
                data |-> data]
    /\ result' = r.ret
    /\ UNCHANGED criteria

UpdateClientWith ==
    /\ \E c \in ClientIdArgs, data \in ClientUpdateBodies, ok \in BOOLEAN :
          ApplyWith(update_client(Db, c, data, ok), "update_client", c, 0, data)
    /\ UNCHANGED <<nextId, reqs>>

SetModelTo ==
    /\ \E c \in ClientIdArgs, m \in ModelUpdateBodies, ok \in BOOLEAN :
          ApplyWith(set_model(Db, c, m, ok), "set_model", c, 0, m)
    /\ UNCHANGED <<nextId, reqs>>

GetCurrentModel ==
    /\ \E c \in ClientIdArgs :
          ApplyWith(get_current_model(Db, c), "get_current_model", c, 0, <<>>)
    /\ UNCHANGED <<nextId, reqs>>

NextUpdate ==
    \/ CreateClient
    \/ CreateCaseAssignment
    \/ DeleteClient
    \/ UpdateClientWith
    \/ SetModelTo
    \/ GetCurrentModel

SpecUpdate == Init /\ [][NextUpdate]_vars

(***************************************************************************)
(* Partial updates of cases.  The store is built by create_client and      *)
(* create_case_assignment; the bodies are ServiceUpdate requests.          *)
(***************************************************************************)
\* ServiceUpdate.success_rate: Field(None, ge=0, le=100)
MaxSuccessRate == 100

\* service_update.dict(exclude_unset=True) of ServiceUpdate bodies
ServiceUpdateBodies ==
    {<<>>,
     ("employment_assistance" :> Some(TRUE)),
     ("employment_assistance" :> Some(FALSE))
         @@ ("success_rate" :> Some(MaxSuccessRate))}

UpdateServicesWith ==
    /\ \E c \in ClientIdArgs, w \in UserIdArgs, data \in ServiceUpdateBodies,
          ok \in BOOLEAN :
          ApplyWith(update_client_services(Db, c, w, data, ok),
                    "update_client_services", c, w, data)
    /\ UNCHANGED <<nextId, reqs>>

NextServices ==
    \/ CreateClient
    \/ CreateCaseAssignment
    \/ UpdateServicesWith

SpecServices == Init /\ [][NextServices]_vars

(***************************************************************************)
(* Listing clients page by page.  The store is drawn from the stores       *)
(* create_client builds; a step is one listing request, sent to            *)
(* ClientService.get_clients or to the GET / endpoint in front of it.      *)
(***************************************************************************)
MaxListed == 4       \* clients in the store that is listed

\* limit: int = Query(default=50, ge=1, le=150, ...)
DefaultLimit == 50
MaxLimit == 150

\* ClientService.validate_pagination
validate_pagination(skip, limit) ==
    IF skip < 0 THEN HTTPException(400, "Skip value cannot be negative")
    ELSE IF limit < 1 THEN HTTPException(400, "Limit must be greater than 0")
    ELSE Returned

Min(a, b) == IF a <= b THEN a ELSE b

\* query.offset(skip).limit(limit).all() over the rows as the store lists
\* them
OffsetLimitIgnoresSkip(listing, skip, limit) ==
    SubSeq(listing, 1, Min(Len(listing), limit))
OffsetLimit(listing, skip, limit) ==
    SubSeq(listing, skip + 1, Min(Len(listing), skip + limit))

\* db.query(Client).count()
Count(db) == Cardinality(DOMAIN db.clients)

\* ClientService.get_clients; listing: the ids of the Client rows in the
\* order in which the store yields them (the query has no ORDER BY)
get_clients(db, listing, skip, limit) ==
    IF validate_pagination(skip, limit) # Returned
    THEN Outcome(db, validate_pagination(skip, limit), <<>>)
    ELSE Outcome(db, Returned,
                 [clients |-> OffsetLimit(listing, skip, limit),
                  total |-> Count(db)])

\* the framework rejects a query parameter outside its Query(ge=, le=)
RequestValidationError == [code |-> 422, exc |-> "RequestValidationError", detail |-> ""]

\* GET /clients/: skip: Query(ge=0), limit: Query(ge=1, le=150)
get_clients_endpoint(db, listing, skip, limit) ==
    IF skip < 0 \/ limit < 1 \/ limit > MaxLimit
    THEN Outcome(db, RequestValidationError, <<>>)
    ELSE get_clients(db, listing, skip, limit)

\* the orders in which a store can list its rows
Listings(db) ==
    {l \in [1..Cardinality(DOMAIN db.clients) -> DOMAIN db.clients] :
        \A i, j \in DOMAIN l : i # j => l[i] # l[j]}

SkipArgs == {-1, 0, 1, 2, MaxListed + 1}
LimitArgs == {-1, 0, 1, 2, DefaultLimit, MaxLimit, MaxLimit + 1}

InitPage ==
    /\ \E n \in 0..MaxListed :
          /\ clients = [i \in 1..n |-> SetAttrs(NewClient, ExampleClient)]
          /\ nextId = n + 1
    /\ cases = [p \in ClientIds \X UserIds |-> <<>>]
    /\ last = NoCall
    /\ result = <<>>
    /\ criteria = <<>>
    /\ reqs = <<>>

\* ClientService.get_clients(db, skip, limit), called directly
ListClients ==
    /\ last = NoCall
    /\ \E listing \in Listings(Db), skip \in SkipArgs, limit \in LimitArgs :
          ApplyWith(get_clients(Db, listing, skip, limit), "get_clients", 0, 0,
                    [listing |-> listing, skip |-> skip, limit |-> limit])
    /\ UNCHANGED <<nextId, reqs>>

\* GET /clients/?skip=..&limit=..
ListClientsEndpoint ==
    /\ last = NoCall
    /\ \E listing \in Listings(Db), skip \in SkipArgs, limit \in LimitArgs :
          ApplyWith(get_clients_endpoint(Db, listing, skip, limit), "GET /", 0, 0,
                    [listing |-> listing, skip |-> skip, limit |-> limit])
    /\ UNCHANGED <<nextId, reqs>>

NextPage == ListClients \/ ListClientsEndpoint

SpecPage == InitPage /\ [][NextPage]_vars

(***************************************************************************)
(* The prediction pipeline: POST /clients/{client_id}/predictions.         *)
(***************************************************************************)
BoolFields ==
    {"canada_born", "citizen_status", "fluent_english", "transportation_bool",
     "caregiver_bool", "felony_bool", "attending_school", "currently_employed",
     "substance_use", "need_mental_health_support_bool"}

\* ClientBase: the Field(ge=, le=) of each attribute; every one is required
FieldOk(f, v) ==
    CASE f = "age" -> v >= 18
      [] f = "gender" -> v \in {1, 2}
      [] f \in {"work_experience", "canada_workex", "dep_num", "time_unemployed"}
            -> v >= 0
      [] f = "level_of_schooling" -> 1 <= v /\ v <= 14
      [] f \in {"reading_english_scale", "speaking_english_scale",
                "writing_english_scale", "numeracy_scale", "computer_scale"}
            -> 0 <= v /\ v <= 10
      [] f = "housing" -> 1 <= v /\ v <= 10
      [] f = "income_source" -> 1 <= v /\ v <= 11
      [] OTHER -> TRUE

\* ClientResponse.model_validate(client) succeeds
Validates(row) ==
    \A f \in ClientFields : row[f] # None /\ FieldOk(f, Val(row[f]))

\* the validated ClientResponse: the attribute values of the row
model_validate(row) == [f \in ClientFields |-> Val(row[f])]

\* bool_to_str: "1" if val else "0"
bool_to_str(val) == IF val THEN "1" ELSE "0"

\* the truth value Python gives an int in `if val`
Truth(n) == n # 0

Digits == <<"0", "1", "2", "3", "4", "5", "6", "7", "8", "9">>

\* str(n) of an int n >= 0: its decimal digits
str_last_digit(n) == Digits[(n % 10) + 1]
RECURSIVE str(_)
str(n) ==
    IF n < 10 THEN Digits[n + 1]
    ELSE str(n \div 10) \o Digits[(n % 10) + 1]

\* PredictionInput.from_client_response(client).model_dump()
from_client_response(client) ==
    [f \in AssessmentFields |->
        CASE f = "gender" -> bool_to_str(Truth(client[f]))
          [] f \in BoolFields -> bool_to_str(client[f])
          [] f \in {"level_of_schooling", "housing", "income_source"}
                -> str(client[f])
          [] OTHER -> client[f]]

\* interpret_and_calculate(features, model_name): resolves the artifact of
\* that name, invokes it and interprets the estimate; an unresolvable name
\* is an internal failure
interpret_and_calculate(db, features, model_name) ==
    IF model_name \notin get_available_models
    THEN Outcome(db, Uncaught("ArtifactUnavailable"), <<>>)
    ELSE Outcome(db, Returned, [features |-> features, model |-> model_name])

\* the predict endpoint
predict_validates_binding(db, client_id) ==
    IF ~ClientFound(db, client_id) THEN Outcome(db, NotFoundClient, <<>>)
    ELSE IF ~Validates(db.clients[client_id])
    THEN Outcome(db, Uncaught("ValidationError"), <<>>)
    ELSE IF model_validate(db.clients[client_id])["current_model"]
                \notin get_available_models
    THEN Outcome(db, HTTPException(400, "Unknown model"), <<>>)
    ELSE interpret_and_calculate(db,
             from_client_response(model_validate(db.clients[client_id])),
             model_validate(db.clients[client_id])["current_model"])
predict_writes_success_rate(db, client_id) ==
    IF ~ClientFound(db, client_id) THEN Outcome(db, NotFoundClient, <<>>)
    ELSE IF ~Validates(db.clients[client_id])
    THEN Outcome(db, Uncaught("ValidationError"), <<>>)
    ELSE Outcome([db EXCEPT !.cases =
                     [p \in DOMAIN db.cases |->
                         IF p[1] # client_id THEN db.cases[p]
                         ELSE [i \in DOMAIN db.cases[p] |->
                                 [db.cases[p][i] EXCEPT !["success_rate"] = Some(50)]]]],
                 Returned, <<>>)
predict(db, client_id) ==
    IF ~ClientFound(db, client_id) THEN Outcome(db, NotFoundClient, <<>>)
    ELSE IF ~Validates(db.clients[client_id])
    THEN Outcome(db, Uncaught("ValidationError"), <<>>)
    ELSE interpret_and_calculate(db,
             from_client_response(model_validate(db.clients[client_id])),
             model_validate(db.clients[client_id])["current_model"])

\* rows of clients that create_client and update_client can have written
PredictRows ==
    {SetAttrs(NewClient, ExampleClient @@ ("current_model" :> Some("RandomForest"))),
     SetAttrs(NewClient,
              ("gender" :> Some(2)) @@ ("canada_born" :> Some(TRUE))
              @@ ("level_of_schooling" :> Some(14)) @@ ("housing" :> Some(10))
              @@ ("income_source" :> Some(11)) @@ ("age" :> Some(40))
              @@ ("current_model" :> Some("GradientBoosting")) @@ ExampleClient),
     SetAttrs(NewClient, ExampleClient),
     SetAttrs(NewClient, SparseClient @@ ("current_model" :> Some("RandomForest")))}

InitPredict ==
    /\ \E n \in 1..MaxClients : clients \in [1..n -> PredictRows] /\ nextId = n + 1
    /\ cases = [p \in ClientIds \X UserIds |-> <<>>]
    /\ last = NoCall
    /\ result = <<>>
    /\ criteria = <<>>
    /\ reqs = <<>>

Predict ==
    /\ \E c \in ClientIdArgs :
          ApplyWith(predict(Db, c), "predict", c, 0, <<>>)
    /\ UNCHANGED <<nextId, reqs>>

NextPredict == SetModelTo \/ Predict

SpecPredict == InitPredict /\ [][NextPredict]_vars

(***************************************************************************)
(* Writes through the request schemas.  A request body is validated by the *)
(* schema of its endpoint before the service is called; the bodies below   *)
(* include values at the ends of the ranges and values outside them.       *)
(***************************************************************************)
\* ClientCreate: a field that is sent must be a value of its range (the
\* annotations are int, bool and Gender, which null is not)
ClientCreateAccepts(body) ==
    \A f \in DOMAIN body : body[f] # None /\ FieldOk(f, Val(body[f]))

\* ClientUpdate: every field is Optional, so null is accepted as well
ClientUpdateAcceptsAll(body) == TRUE
ClientUpdateAccepts(body) ==
    \A f \in DOMAIN body : body[f] = None \/ FieldOk(f, Val(body[f]))

\* ServiceUpdate: success_rate: Optional[int] = Field(None, ge=0, le=100)
ServiceUpdateAccepts(body) ==
    \A f \in DOMAIN body :
        \/ body[f] = None
        \/ f # "success_rate"
        \/ 0 <= Val(body[f]) /\ Val(body[f]) <= MaxSuccessRate

\* POST /clients/
post_client(db, id, body, ok) ==
    IF ~ClientCreateAccepts(body) THEN Outcome(db, RequestValidationError, <<>>)
    ELSE create_client(db, id, body, ok)

\* PUT /clients/{client_id}
put_client(db, client_id, body, ok) ==
    IF ~ClientUpdateAccepts(body) THEN Outcome(db, RequestValidationError, <<>>)
    ELSE update_client(db, client_id, body, ok)

\* PUT /clients/{client_id}/services/{user_id}
put_client_services(db, client_id, user_id, body, ok) ==
    IF ~ServiceUpdateAccepts(body) THEN Outcome(db, RequestValidationError, <<>>)
    ELSE update_client_services(db, client_id, user_id, body, ok)

\* bodies a caller may send
PostClientBodies == {ExampleClient, SparseClient, ("age" :> Some(17))}

PutClientBodies ==
    {("age" :> None) @@ ("level_of_schooling" :> Some(14)) @@ ("housing" :> Some(1)),
     ("level_of_schooling" :> Some(15)) @@ ("housing" :> Some(1))}

PutServicesBodies ==
    {("success_rate" :> Some(MaxSuccessRate)),
     ("success_rate" :> Some(MaxSuccessRate + 1))}

PostClient ==
    /\ nextId <= MaxClients
    /\ \E body \in PostClientBodies, ok \in BOOLEAN :
          LET r == post_client(Db, nextId, body, ok)
          IN  /\ ApplyWith(r, "create_client", nextId, 0, body)
              /\ nextId' = IF r.resp = Returned THEN nextId + 1 ELSE nextId
    /\ UNCHANGED reqs

PutClient ==
    /\ \E c \in ClientIdArgs, body \in PutClientBodies, ok \in BOOLEAN :
          ApplyWith(put_client(Db, c, body, ok), "update_client", c, 0, body)
    /\ UNCHANGED <<nextId, reqs>>

PutClientServices ==
    /\ \E c \in ClientIdArgs, w \in UserIdArgs, body \in PutServicesBodies,
          ok \in BOOLEAN :
          ApplyWith(put_client_services(Db, c, w, body, ok),
                    "update_client_services", c, w, body)
    /\ UNCHANGED <<nextId, reqs>>

NextWrite ==
    \/ PostClient
    \/ PutClient
    \/ CreateCaseAssignment
    \/ PutClientServices

SpecWrite == Init /\ [][NextWrite]_vars

(***************************************************************************)
(* The searches over the cases and the other read operations.              *)
(* db.query(Client).join(ClientCase): one joined row for each case of each *)
(* client; .all() on a query of the one entity Client yields each client   *)
(* once, so a result is the set of the ids of the clients that have a      *)
(* joined row passing the filters.                                         *)
(***************************************************************************)
\* ClientCase.success_rate >= min_rate (NULL compares to nothing)
RateAtLeastStrict(row, min_rate) ==
    row["success_rate"] # None /\ Val(row["success_rate"]) > min_rate
RateAtLeast(row, min_rate) ==
    row["success_rate"] # None /\ Val(row["success_rate"]) >= min_rate

get_clients_by_success_rate(db, min_rate) ==
    IF ~(0 <= min_rate /\ min_rate <= MaxSuccessRate)
    THEN Outcome(db, HTTPException(400, "Success rate must be between 0 and 100"),
                 <<>>)
    ELSE Outcome(db, Returned,
                 {c \in DOMAIN db.clients :
                     \E r \in CasesOfClient(db, c) : RateAtLeast(r.row, min_rate)})

\* GET /clients/search/success-rate: min_rate: Query(70, ge=0, le=100)
get_clients_by_success_rate_endpoint(db, min_rate) ==
    IF min_rate < 0 \/ min_rate > MaxSuccessRate
    THEN Outcome(db, RequestValidationError, <<>>)
    ELSE get_clients_by_success_rate(db, min_rate)

get_clients_by_case_worker_unverified(db, case_worker_id) ==
    Outcome(db, Returned,
            {c \in DOMAIN db.clients :
                \E r \in CasesOfClient(db, c) : r.user_id = case_worker_id})
get_clients_by_case_worker(db, case_worker_id) ==
    IF ~CaseworkerFound(case_worker_id) THEN Outcome(db, NotFoundCaseworker, <<>>)
    ELSE Outcome(db, Returned,
                 {c \in DOMAIN db.clients :
                     \E r \in CasesOfClient(db, c) : r.user_id = case_worker_id})

\* the filters of get_clients_by_services are chained on the one joined row
get_clients_by_services_any_case(db, service_filters) ==
    Outcome(db, Returned,
            {c \in DOMAIN db.clients :
                /\ CasesOfClient(db, c) # {}
                /\ \A service_name \in DOMAIN service_filters :
                      service_filters[service_name] # None
                         => \E r \in CasesOfClient(db, c) :
                               r.row[service_name] = service_filters[service_name]})
get_clients_by_services(db, service_filters) ==
    Outcome(db, Returned,
            {c \in DOMAIN db.clients :
                \E r \in CasesOfClient(db, c) :
                    \A service_name \in DOMAIN service_filters :
                        service_filters[service_name] # None
                           => r.row[service_name] = service_filters[service_name]})

\* cases as create_case_assignment and update_client_services leave them
AssistedCase ==
    SetAttrs(NewCase, ("employment_assistance" :> Some(TRUE))
                      @@ ("success_rate" :> Some(80)))
StabilizedCase ==
    SetAttrs(NewCase, ("employment_assistance" :> Some(TRUE))
                      @@ ("life_stabilization" :> Some(TRUE))
                      @@ ("success_rate" :> Some(MaxSuccessRate)))

SearchCases == {<<>>, <<NewCase>>, <<AssistedCase>>, <<StabilizedCase>>}

SearchRows ==
    {SetAttrs(NewClient, ExampleClient @@ ("current_model" :> Some("RandomForest"))),
     SetAttrs(NewClient, SparseClient)}

MinRateArgs == {-1, 0, 70, MaxSuccessRate, MaxSuccessRate + 1}

\* the keyword arguments the endpoint passes: all seven flags, None when the
\* query string leaves a flag out
ServiceFilters ==
    {f @@ [k \in ServiceFlags |-> None] :
        f \in {<<>>,
               ("employment_assistance" :> Some(TRUE)),
               ("life_stabilization" :> Some(FALSE)),
               ("employment_assistance" :> Some(TRUE))
                   @@ ("life_stabilization" :> Some(FALSE)),
               ("employment_assistance" :> Some(TRUE))
                   @@ ("life_stabilization" :> Some(TRUE)),
               ("retention_services" :> Some(TRUE))}}

SearchCriteria ==
    {f @@ [k \in Criteria |-> None] :
        f \in {<<>>, ("gender" :> Some(2)), ("age_min" :> Some(17))}}

InitSearch ==
    /\ \E n \in 0..MaxClients : clients \in [1..n -> SearchRows] /\ nextId = n + 1
    /\ cases \in [ClientIds \X UserIds -> SearchCases]
    /\ \A p \in ClientIds \X UserIds : p[1] \notin DOMAIN clients => cases[p] = <<>>
    /\ last = NoCall
    /\ result = <<>>
    /\ criteria = <<>>
    /\ reqs = <<>>

GetClientsBySuccessRate ==
    /\ \E min_rate \in MinRateArgs :
          ApplyWith(get_clients_by_success_rate(Db, min_rate),
                    "get_clients_by_success_rate", 0, 0, min_rate)
    /\ UNCHANGED <<nextId, reqs>>

GetClientsBySuccessRateEndpoint ==
    /\ \E min_rate \in MinRateArgs :
          ApplyWith(get_clients_by_success_rate_endpoint(Db, min_rate),
                    "GET /search/success-rate", 0, 0, min_rate)
    /\ UNCHANGED <<nextId, reqs>>

GetClientsByCaseWorker ==
    /\ \E w \in UserIdArgs :
          ApplyWith(get_clients_by_case_worker(Db, w),
                    "get_clients_by_case_worker", 0, w, <<>>)
    /\ UNCHANGED <<nextId, reqs>>

GetClientsByServices ==
    /\ \E service_filters \in ServiceFilters :
          ApplyWith(get_clients_by_services(Db, service_filters),
                    "get_clients_by_services", 0, 0, service_filters)
    /\ UNCHANGED <<nextId, reqs>>

SearchByCriteria ==
    /\ \E filters \in SearchCriteria, order \in RegistryOrders :
          ApplyWith(get_clients_by_criteria(Db, filters, order),
                    "get_clients_by_criteria", 0, 0, filters)
    /\ UNCHANGED <<nextId, reqs>>

GetClients ==
    /\ \E listing \in Listings(Db), skip \in {0, 1}, limit \in {0, DefaultLimit} :
          ApplyWith(get_clients(Db, listing, skip, limit), "get_clients", 0, 0,
                    [listing |-> listing, skip |-> skip, limit |-> limit])
    /\ UNCHANGED <<nextId, reqs>>

GetServicesOfClient ==
    /\ \E c \in ClientIdArgs :
          ApplyWith(get_client_services(Db, c), "get_client_services", c, 0, <<>>)
    /\ UNCHANGED <<nextId, reqs>>

GetOneClient ==
    /\ \E c \in ClientIdArgs :
          ApplyWith(get_client(Db, c), "get_client", c, 0, <<>>)
    /\ UNCHANGED <<nextId, reqs>>

NextSearch ==
    \/ GetClientsBySuccessRate
    \/ GetClientsBySuccessRateEndpoint
    \/ GetClientsByCaseWorker
    \/ GetClientsByServices
    \/ SearchByCriteria
    \/ GetClients
    \/ GetServicesOfClient
    \/ GetOneClient
    \/ GetCurrentModel
    \/ Predict

SpecSearch == InitSearch /\ [][NextSearch]_vars

(***************************************************************************)
(* delete_client running concurrently with create_case_assignment.  Each   *)
(* request runs its statements one at a time in its own transaction, whose *)
(* changes reach the shared store at db.commit().  The tables are declared *)
(* outside the service: a Client owns its ClientCase rows, so the store    *)
(* refuses a case whose client does not exist and removes the cases of a   *)
(* client together with the client.                                        *)
(***************************************************************************)
\* ClientCase.client_id refers to a Client of the store
StoreOwns(pending) ==
    \A p \in DOMAIN pending.cases :
        Len(pending.cases[p]) > 0 => p[1] \in DOMAIN pending.clients

\* a request arrives: DELETE /clients/{client_id}
CallDelete(r) ==
    /\ reqs[r].pc = "idle"
    /\ \E c \in ClientIdArgs :
          reqs' = [reqs EXCEPT ![r] =
                      [pc |-> "delete_get_client", cid |-> c, wid |-> 0,
                       resp |-> Returned]]
    /\ UNCHANGED <<clients, cases, nextId, last, result, criteria>>

\* client = ClientService.get_client_or_404nf(db, client_id)
StepDeleteGetClient(r) ==
    /\ reqs[r].pc = "delete_get_client"
    /\ IF ClientFound(Db, reqs[r].cid)
       THEN Goto(r, "delete_cases") ELSE Finish(r, NotFoundClient)
    /\ UNCHANGED <<clients, cases, nextId, last, result, criteria>>

\* db.query(ClientCase).filter_by(client_id=client_id).delete(): the rows are
\* deleted in the transaction of the request, which no other request sees
StepDeleteCases(r) ==
    /\ reqs[r].pc = "delete_cases"
    /\ Goto(r, "delete_commit")
    /\ UNCHANGED <<clients, cases, nextId, last, result, criteria>>

\* db.delete(client); db.commit(), or on an exception db.rollback() and 500.
\* The commit removes the client with its cases; it fails when another
\* request has deleted the client in the meantime
StepDeleteCommit(r) ==
    /\ reqs[r].pc = "delete_commit"
    /\ \E ok \in BOOLEAN :
          LET pending == DeleteClientRow(DeleteCasesOf(Db, reqs[r].cid), reqs[r].cid)
              out == CommitOrRollback(Db, pending, ok /\ ClientFound(Db, reqs[r].cid),
                                      <<>>, "Failed to delete client")
          IN  /\ clients' = out.db.clients
              /\ cases' = out.db.cases
              /\ Finish(r, out.resp)
    /\ UNCHANGED <<nextId, last, result, criteria>>

\* db.add(new_case); db.commit() of create_case_assignment against the store
\* that keeps the ownership; the detail of the 500 carries str(e)
StepCommitOwned(r) ==
    /\ reqs[r].pc = "commit"
    /\ \E ok \in BOOLEAN :
          LET pending == AddCase(Db, reqs[r].cid, reqs[r].wid)
              out == CommitOrRollback(Db, pending,
                         ok /\ StoreAccepts(pending) /\ StoreOwns(pending), NewCase,
                         IF StoreOwns(pending)
                         THEN "Failed to create case assignment"
                         ELSE "Failed to create case assignment: foreign key")
          IN  /\ clients' = out.db.clients
              /\ cases' = out.db.cases
              /\ Finish(r, out.resp)
    /\ UNCHANGED <<nextId, last, result, criteria>>

NextOwn ==
    \/ CreateClient
    \/ \E r \in Requests :
          \/ Call(r)
          \/ StepGetClient(r)
          \/ StepGetCaseworker(r)
          \/ StepExisting(r)
          \/ StepCommitOwned(r)
          \/ CallDelete(r)
          \/ StepDeleteGetClient(r)
          \/ StepDeleteCases(r)
          \/ StepDeleteCommit(r)
          \/ Respond(r)

SpecOwn == InitConc /\ [][NextOwn]_vars

(***************************************************************************)
(* Properties of the search by criteria (checked under SpecFilter).        *)
(***************************************************************************)
Searched == last.op = "get_clients_by_criteria"

\* the criteria the request supplies
Supplied == {k \in Criteria : criteria[k] # None}

\* the clients one criterion matches, as the specification words it
Matches(key, v) ==
    {id \in DOMAIN clients :
        CASE key = "age_min" ->
                 /\ clients[id]["age"] # None
                 /\ Val(clients[id]["age"]) >= Val(v)
          [] key = "employment_status" -> clients[id]["currently_employed"] = v
          [] key = "education_level" -> clients[id]["level_of_schooling"] = v
          [] OTHER -> clients[id][key] = v}

\* C1: a search with a non-empty set of valid criteria returns exactly the
\* clients that match every supplied criterion (the intersection of the
\* per-criterion match sets), whatever the order in which the registry is
\* iterated.
C1_ResultIsIntersection ==
    (Searched /\ last.resp = Returned /\ Supplied # {}) =>
        /\ result = {id \in DOMAIN clients :
                        \A k \in Supplied : id \in Matches(k, criteria[k])}
        /\ \A o \in RegistryOrders :
              QueryClients(Db, build_filter(criteria, o)) = result

C1_Witness ==
    /\ Searched /\ last.resp = Returned
    /\ {"age_min", "gender"} \subseteq Supplied
    /\ result # {} /\ result # DOMAIN clients

\* C2: with every criterion absent build_filter yields no predicate and the
\* search returns every client of the store, without failing.
C2_NoCriteriaSelectsAll ==
    (Searched /\ Supplied = {}) =>
        /\ last.resp = Returned
        /\ \A o \in RegistryOrders : build_filter(criteria, o) = <<>>
        /\ result = DOMAIN clients

C2_Witness ==
    /\ Searched /\ Supplied = {}
    /\ last.resp = Returned
    /\ Cardinality(result) >= 2

EducationOutOfBounds ==
    /\ criteria["education_level"] # None
    /\ Val(criteria["education_level"]) \notin 1..14

AgeMinOutOfBounds ==
    criteria["age_min"] # None /\ Val(criteria["age_min"]) < 18

GenderOutOfBounds ==
    criteria["gender"] # None /\ Val(criteria["gender"]) \notin {1, 2}

\* C3: a search fails with a validation failure (HTTP 400), and returns
\* nothing from the store, exactly when a supplied education_level is
\* outside 1..14, a supplied age_min is below 18 or a supplied gender is not
\* 1 or 2, whatever else is supplied; the detail names a violated field and
\* its bound.
C3_BoundsValidated ==
    Searched =>
        /\ (EducationOutOfBounds \/ AgeMinOutOfBounds \/ GenderOutOfBounds)
              <=> (last.resp.exc = "HTTPException" /\ last.resp.code = 400)
        /\ (~EducationOutOfBounds /\ ~AgeMinOutOfBounds /\ ~GenderOutOfBounds)
              => last.resp = Returned
        /\ last.resp # Returned =>
              /\ result = <<>>
              /\ \/ /\ last.resp.detail = "Education level must be between 1 and 14"
                    /\ EducationOutOfBounds
                 \/ /\ last.resp.detail = "Minimum age must be at least 18"
                    /\ AgeMinOutOfBounds
                 \/ /\ last.resp.detail = "Gender must be 1 or 2"
                    /\ GenderOutOfBounds

C3_Witness ==
    /\ Searched
    /\ GenderOutOfBounds /\ ~EducationOutOfBounds /\ ~AgeMinOutOfBounds
    /\ criteria["dep_num"] # None /\ criteria["employment_status"] # None
    /\ last.resp = HTTPException(400, "Gender must be 1 or 2")
    /\ clients # <<>>

(***************************************************************************)
(* Properties of the case service (checked under Spec).                    *)
(***************************************************************************)
Pairs == DOMAIN cases

Assigned == last.op = "create_case_assignment"

IsFreshCase(row) ==
    /\ \A f \in ServiceFlags : row[f] = Some(FALSE)
    /\ row["success_rate"] = Some(0)

IsInternal(resp) == resp.exc = "HTTPException" /\ resp.code = 500

StoreUnchanged == clients' = clients /\ cases' = cases

\* C4: in every state reached by the service operations the store holds at
\* most one ClientCase for each (client_id, case_worker_id) pair.
C4_AtMostOneCasePerPair == \A p \in Pairs : Len(cases[p]) <= 1

C4_Witness ==
    /\ Assigned /\ last.resp.code = 400
    /\ Len(cases[<<last.cid, last.wid>>]) = 1
    /\ \E p \in Pairs : p # <<last.cid, last.wid>> /\ Len(cases[p]) = 1

\* C5: create_case_assignment for an existing client and case worker with
\* no case for the pair adds exactly one case for that pair, with the seven
\* flags false and success_rate 0, and changes no client and no other case
\* (or, when the commit fails, changes nothing).
C5_AssignmentAddsOneFreshCase ==
    [][(/\ last'.op = "create_case_assignment"
        /\ ClientFound(Db, last'.cid)
        /\ last'.wid \in UserIds
        /\ CaseRows(Db, last'.cid, last'.wid) = <<>>)
       => \/ /\ last'.resp = Returned
             /\ Len(cases'[<<last'.cid, last'.wid>>]) = 1
             /\ IsFreshCase(cases'[<<last'.cid, last'.wid>>][1])
             /\ \A p \in Pairs :
                   p # <<last'.cid, last'.wid>> => cases'[p] = cases[p]
             /\ clients' = clients
          \/ /\ IsInternal(last'.resp)
             /\ StoreUnchanged]_vars

C5_Witness ==
    /\ Assigned /\ last.resp = Returned
    /\ Len(cases[<<last.cid, last.wid>>]) = 1
    /\ \E p \in Pairs :
          /\ p # <<last.cid, last.wid>> /\ Len(cases[p]) = 1
          /\ ~IsFreshCase(cases[p][1])

\* the status code of a validation failure
ValidationCode ==
    validate_criteria([k \in Criteria |->
                          IF k = "gender" THEN Some(3) ELSE None]).code

\* C6: create_case_assignment for a pair that already has a case fails
\* with a conflict failure whose category differs from the validation,
\* not-found and internal categories, and leaves the store unchanged.
C6_ConflictIsItsOwnCategory ==
    [][(/\ last'.op = "create_case_assignment"
        /\ CaseRows(Db, last'.cid, last'.wid) # <<>>)
       => /\ last'.resp.exc = "HTTPException"
          /\ last'.resp.code \notin {ValidationCode, 404, 500}
          /\ StoreUnchanged]_vars

\* C7: create_case_assignment fails with not-found, and writes nothing,
\* whenever the client or the case worker does not exist; the client is
\* looked up first.
C7_AssignmentNeedsClientAndWorker ==
    [][(/\ last'.op = "create_case_assignment"
        /\ (~ClientFound(Db, last'.cid) \/ last'.wid \notin UserIds))
       => /\ last'.resp.exc = "HTTPException"
          /\ last'.resp.code = 404
          /\ ~ClientFound(Db, last'.cid) => last'.resp.detail = "Client not found"
          /\ StoreUnchanged]_vars

C7_Witness ==
    /\ Assigned
    /\ last.resp = HTTPException(404, "Case worker not found")
    /\ ClientFound(Db, last.cid)
    /\ CasesOfClient(Db, last.cid) # {}

DbNext == [clients |-> clients', cases |-> cases']

\* C8: after a successful delete_client(c) the store holds neither c nor a
\* case of c, every other client and case is unchanged, and reading c
\* (get_client), c's cases (get_client_services) or updating one of the
\* deleted pairs (update_client_services) reports not-found.
C8_DeletedClientIsNotFound ==
    [][(last'.op = "delete_client" /\ last'.resp = Returned)
       => /\ last'.cid \notin DOMAIN clients'
          /\ \A p \in Pairs : p[1] = last'.cid => cases'[p] = <<>>
          /\ \A d \in DOMAIN clients \ {last'.cid} :
                d \in DOMAIN clients' /\ clients'[d] = clients[d]
          /\ \A p \in Pairs : p[1] # last'.cid => cases'[p] = cases[p]
          /\ get_client(DbNext, last'.cid).resp.code = 404
          /\ get_client_services(DbNext, last'.cid).resp.code = 404
          /\ \A w \in UserIds, data \in ServicePayloads :
                LET r == update_client_services(DbNext, last'.cid, w, data, TRUE)
                IN  r.resp.exc = "HTTPException" /\ r.resp.code = 404]_vars

\* C9: a mutating operation whose commit fails reports an internal failure
\* and leaves the committed store exactly as it was; a failed delete_client
\* keeps the client and all of its cases.
C9_FailedCommitRollsBack ==
    /\ \A data \in CreatePayloads :
          LET r == create_client(Db, nextId, data, FALSE)
          IN  r.db = Db /\ IsInternal(r.resp)
    /\ \A c \in DOMAIN clients :
          /\ \A data \in UpdatePayloads :
                LET r == update_client(Db, c, data, FALSE)
                IN  r.db = Db /\ IsInternal(r.resp)
          /\ \A m \in ModelNames :
                LET r == set_model(Db, c, m, FALSE)
                IN  r.db = Db /\ IsInternal(r.resp)
          /\ LET r == delete_client(Db, c, FALSE)
             IN  r.db = Db /\ IsInternal(r.resp)
          /\ \A w \in UserIds :
                IF CaseRows(Db, c, w) = <<>>
                THEN LET r == create_case_assignment(Db, c, w, FALSE)
                     IN  r.db = Db /\ IsInternal(r.resp)
                ELSE \A data \in ServicePayloads :
                        LET r == update_client_services(Db, c, w, data, FALSE)
                        IN  r.db = Db /\ IsInternal(r.resp)

C9_Witness ==
    /\ last.op = "delete_client"
    /\ last.resp = HTTPException(500, "Failed to delete client")
    /\ ClientFound(Db, last.cid)
    /\ Cardinality(CasesOfClient(Db, last.cid)) >= 2

(***************************************************************************)
(* Properties of concurrent case assignment (checked under SpecConc).      *)
(***************************************************************************)
Done(r) == reqs[r].pc = "done"

SamePair(r1, r2) == reqs[r1].cid = reqs[r2].cid /\ reqs[r1].wid = reqs[r2].wid

C11_UpdateSetsOnlyThePayload ==
    [][(last'.op = "update_client" /\ ClientFound(Db, last'.cid))
       => \/ /\ last'.resp = Returned
             /\ DOMAIN clients' = DOMAIN clients
             /\ \A f \in ClientFields :
                   clients'[last'.cid][f] =
                       IF f \in DOMAIN last'.data THEN last'.data[f]
                       ELSE clients[last'.cid][f]
             /\ \A d \in DOMAIN clients \ {last'.cid} : clients'[d] = clients[d]
             /\ cases' = cases
             /\ result' = clients'[last'.cid]
          \/ /\ IsInternal(last'.resp)
             /\ StoreUnchanged]_vars

\* a null age was written; gender, absent from the body, kept its value,
\* and another client and a case of the updated client are in the store
C11_Witness ==
    /\ last.op = "update_client" /\ last.resp = Returned
    /\ DOMAIN last.data = {"age"}
    /\ clients[last.cid]["age"] = None
    /\ clients[last.cid]["gender"] = Some(2)
    /\ clients[last.cid]["current_model"] = Some("SupportVector")
    /\ Cardinality(DOMAIN clients) = 2
    /\ CasesOfClient(Db, last.cid) # {}

\* C19: set_model on an existing client accepts every name, in the
\* registry or not, and on success binds it: get_current_model then returns
\* that name, no other attribute of the client and no other record has
\* changed; and for as long as the client exists its binding stays as it
\* is in every step that is not a successful set_model for it or a
\* successful update_client that supplies current_model for it.
C19_BindingIsRewrittenAndKept ==
    [][/\ (last'.op = "set_model" /\ ClientFound(Db, last'.cid))
          => \/ /\ last'.resp = Returned
                /\ clients'[last'.cid]["current_model"] = last'.data
                /\ get_current_model(DbNext, last'.cid).resp = Returned
                /\ get_current_model(DbNext, last'.cid).ret = last'.data
                /\ \A f \in AssessmentFields :
                      clients'[last'.cid][f] = clients[last'.cid][f]
                /\ DOMAIN clients' = DOMAIN clients
                /\ \A d \in DOMAIN clients \ {last'.cid} : clients'[d] = clients[d]
                /\ cases' = cases
             \/ /\ IsInternal(last'.resp)
                /\ StoreUnchanged
       /\ \A c \in DOMAIN clients :
             \/ /\ last'.op = "set_model"
                /\ last'.cid = c /\ last'.resp = Returned
             \/ /\ last'.op = "update_client"
                /\ last'.cid = c /\ last'.resp = Returned
                /\ "current_model" \in DOMAIN last'.data
             \/ /\ last'.op = "delete_client"
                /\ last'.cid = c /\ last'.resp = Returned
                /\ c \notin DOMAIN clients'
             \/ /\ c \in DOMAIN clients'
                /\ clients'[c]["current_model"] = clients[c]["current_model"]
                /\ get_current_model(DbNext, c).ret = get_current_model(Db, c).ret
      ]_vars

\* a name outside the registry is read back, after an update_client that
\* did not supply current_model went through
C19_Witness ==
    /\ last.op = "get_current_model" /\ last.resp = Returned
    /\ result = Some("NoSuchModel")
    /\ "NoSuchModel" \notin get_available_models
    /\ clients[last.cid]["age"] = None
    /\ \E d \in DOMAIN clients \ {last.cid} :
          clients[d]["current_model"] = Some("SupportVector")

(***************************************************************************)
(* Properties of update_client_services (checked under Spec and            *)
(* SpecServices).                                                          *)
(***************************************************************************)
\* C12: update_client_services returns the updated case when the pair has
\* a case (or reports the failed commit), and fails with not-found,
\* leaving the store unchanged, when the pair has none.
C12_ServicesUpdatedOrNotFound ==
    [][(last'.op = "update_client_services")
       => IF CaseRows(Db, last'.cid, last'.wid) # <<>>
          THEN \/ /\ last'.resp = Returned
                  /\ result' = cases'[<<last'.cid, last'.wid>>][1]
               \/ /\ IsInternal(last'.resp)
                  /\ StoreUnchanged
          ELSE /\ last'.resp.exc = "HTTPException"
               /\ last'.resp.code = 404
               /\ StoreUnchanged]_vars

\* C13: update_client_services on a pair that has a case sets exactly the
\* flags and success_rate present in the payload; the other fields of that
\* case, every other case (of the same client, of the same worker or of
\* neither) and all clients stay as they were.
C13_ServiceUpdateSetsOnlyThePayload ==
    [][(/\ last'.op = "update_client_services"
        /\ CaseRows(Db, last'.cid, last'.wid) # <<>>
        /\ last'.resp = Returned)
       => /\ Len(cases'[<<last'.cid, last'.wid>>]) = 1
          /\ \A f \in CaseFields :
                cases'[<<last'.cid, last'.wid>>][1][f] =
                    IF f \in DOMAIN last'.data THEN last'.data[f]
                    ELSE cases[<<last'.cid, last'.wid>>][1][f]
          /\ \A q \in Pairs : q # <<last'.cid, last'.wid>> => cases'[q] = cases[q]
          /\ clients' = clients]_vars

\* one flag was set on a case whose success_rate an earlier update had
\* raised; the same client and the same worker have other cases, updated
\* earlier
C13_Witness ==
    /\ last.op = "update_client_services" /\ last.resp = Returned
    /\ DOMAIN last.data = {"employment_assistance"}
    /\ cases[<<last.cid, last.wid>>][1]["employment_assistance"] = Some(TRUE)
    /\ cases[<<last.cid, last.wid>>][1]["success_rate"] = Some(MaxSuccessRate)
    /\ \E w \in UserIds \ {last.wid} :
          /\ cases[<<last.cid, w>>] # <<>>
          /\ ~IsFreshCase(cases[<<last.cid, w>>][1])
    /\ \E c \in ClientIds \ {last.cid} :
          /\ cases[<<c, last.wid>>] # <<>>
          /\ ~IsFreshCase(cases[<<c, last.wid>>][1])

\* C14: in every reachable state, for every existing case, one
\* update_client_services call can set each of the seven flags to either
\* value and success_rate to each value of 0..100, whatever the case's
\* current flags and success_rate and whatever updates came before.
C14_NoTransitionOrdering ==
    \A p \in Pairs :
        cases[p] # <<>> =>
            /\ \A f \in ServiceFlags, v \in BOOLEAN :
                  LET r == update_client_services(Db, p[1], p[2], f :> Some(v), TRUE)
                  IN  /\ r.resp = Returned
                      /\ r.db.cases[p][1][f] = Some(v)
                      /\ \A g \in CaseFields \ {f} :
                            r.db.cases[p][1][g] = cases[p][1][g]
            /\ \A v \in 0..MaxSuccessRate :
                  LET r == update_client_services(Db, p[1], p[2],
                                                  "success_rate" :> Some(v), TRUE)
                  IN  /\ r.resp = Returned
                      /\ r.db.cases[p][1]["success_rate"] = Some(v)
                      /\ \A g \in ServiceFlags :
                            r.db.cases[p][1][g] = cases[p][1][g]

\* a case whose flag was set and then cleared again, with success_rate at
\* its maximum
C14_Witness ==
    /\ last.op = "update_client_services" /\ last.resp = Returned
    /\ DOMAIN last.data = {"employment_assistance", "success_rate"}
    /\ \E p \in Pairs :
          /\ cases[p] # <<>>
          /\ cases[p][1]["employment_assistance"] = Some(TRUE)
          /\ cases[p][1]["success_rate"] = Some(MaxSuccessRate)
    /\ cases[<<last.cid, last.wid>>][1]["employment_assistance"] = Some(FALSE)

(***************************************************************************)
(* Properties of listing clients (checked under SpecPage).                 *)
(***************************************************************************)
Listed == last.op \in {"get_clients", "GET /"}

Max(a, b) == IF a >= b THEN a ELSE b

\* C15: a listing that passes validation returns a page of
\* min(limit, max(0, N - skip)) clients, the ones at positions
\* skip .. skip+limit-1 of the store's listing, and total = N, the number
\* of clients in the store, whatever skip and limit are.
C15_PageAndTotal ==
    (Listed /\ last.resp = Returned) =>
        LET N == Cardinality(DOMAIN clients)
            page == result.clients
        IN  /\ Len(page) = Min(last.data.limit, Max(0, N - last.data.skip))
            /\ \A i \in 1..Len(page) :
                  page[i] = last.data.listing[last.data.skip + i]
            /\ result.total = N

\* a page cut off by limit, starting after skipped clients
C15_Witness ==
    /\ last.op = "get_clients" /\ last.resp = Returned
    /\ last.data.skip = 1 /\ last.data.limit = 2
    /\ Len(result.clients) = 2
    /\ result.total = MaxListed
    /\ result.clients[1] > result.clients[2]

IsValidationFailure(resp) ==
    \/ resp.exc = "HTTPException" /\ resp.code = ValidationCode
    \/ resp = RequestValidationError

\* C16: a listing with skip < 0, limit < 1 or limit > 150 fails validation
\* and returns nothing from the store, and a listing with 0 <= skip and
\* 1 <= limit <= 150 does not fail; both for get_clients called directly
\* and for the GET / endpoint.
C16_PaginationValidated ==
    Listed =>
        IF last.data.skip < 0 \/ last.data.limit < 1 \/ last.data.limit > MaxLimit
        THEN IsValidationFailure(last.resp) /\ result = <<>>
        ELSE last.resp = Returned

(***************************************************************************)
(* Properties of the prediction pipeline (checked under SpecPredict).      *)
(***************************************************************************)
StringCodedFields == {"level_of_schooling", "housing", "income_source"}

IntFields == AssessmentFields \ (BoolFields \cup StringCodedFields \cup {"gender"})

\* the integer codes 1..14 written as strings
CodeString ==
    <<"1", "2", "3", "4", "5", "6", "7", "8", "9", "10", "11", "12", "13", "14">>

Encoding(c) == from_client_response(model_validate(clients[c]))

SameAssessment(c, d) == \A f \in AssessmentFields : clients[c][f] = clients[d][f]

\* C17: the feature encoding of a client record has exactly the 24
\* assessment attributes and no intervention flag; a boolean attribute is
\* "1" when true and "0" when false; level_of_schooling, housing and
\* income_source are their integer code as a string; the other numeric
\* attributes stay integers; records with the same assessment attributes
\* have the same encoding, and it is what predict hands on.
C17_FeatureEncoding ==
    /\ \A c \in DOMAIN clients :
          Validates(clients[c]) =>
              /\ DOMAIN Encoding(c) = AssessmentFields
              /\ DOMAIN Encoding(c) \cap ServiceFlags = {}
              /\ \A f \in BoolFields :
                    Encoding(c)[f] = IF clients[c][f] = Some(TRUE) THEN "1" ELSE "0"
              /\ \A f \in StringCodedFields :
                    Encoding(c)[f] = CodeString[Val(clients[c][f])]
              /\ \A f \in IntFields : Encoding(c)[f] = Val(clients[c][f])
              /\ \A d \in DOMAIN clients :
                    (Validates(clients[d]) /\ SameAssessment(c, d))
                        => Encoding(d) = Encoding(c)
    /\ (last.op = "predict" /\ last.resp = Returned)
          => result.features = Encoding(last.cid)

\* a prediction for a client born in Canada with schooling code 14, while
\* another client has the same assessment and another model
C17_Witness ==
    /\ last.op = "predict" /\ last.resp = Returned
    /\ result.features["canada_born"] = "1"
    /\ result.features["attending_school"] = "0"
    /\ result.features["level_of_schooling"] = "14"
    /\ result.features["age"] = 40
    /\ \E d \in DOMAIN clients \ {last.cid} :
          /\ Validates(clients[d]) /\ SameAssessment(last.cid, d)
          /\ clients[d]["current_model"] # clients[last.cid]["current_model"]

\* C18: in the feature encoding gender is "1" for a MALE (1) client and
\* "0" for a FEMALE (2) client.
C18_GenderIsMaleEncoding ==
    \A c \in DOMAIN clients :
        Validates(clients[c]) =>
            Encoding(c)["gender"] = IF clients[c]["gender"] = Some(1) THEN "1" ELSE "0"

IsNotFound(r) ==
    /\ r.resp.exc = "HTTPException" /\ r.resp.code = 404
    /\ r.ret = <<>>
    /\ r.db = Db

AbsentIds == ClientIdArgs \ DOMAIN clients

\* C21: get_client, update_client, delete_client, get_current_model,
\* set_model and predict, addressed to a client id that is not in the
\* store, fail with not-found and leave the store unchanged; predict fails
\* at the lookup, as get_client does, before any encoding or
\* interpretation.
C21_AbsentClientIsNotFound ==
    [][/\ (/\ last'.op \in {"get_client", "update_client", "delete_client",
                           "set_model"}
           /\ last'.cid \notin DOMAIN clients)
          => /\ last'.resp.exc = "HTTPException" /\ last'.resp.code = 404
             /\ result' = <<>>
             /\ StoreUnchanged
       /\ \A c \in AbsentIds :
             /\ IsNotFound(get_client(Db, c))
             /\ IsNotFound(get_current_model(Db, c))
             /\ IsNotFound(predict(Db, c))
             /\ predict(Db, c) = get_client(Db, c)
             /\ \A ok \in BOOLEAN :
                   /\ IsNotFound(delete_client(Db, c, ok))
                   /\ \A data \in UpdatePayloads \cup ClientUpdateBodies :
                         IsNotFound(update_client(Db, c, data, ok))
                   /\ \A m \in ModelNames \cup ModelUpdateBodies :
                         IsNotFound(set_model(Db, c, m, ok))
      ]_vars

\* an update addressed to a client that was deleted, while another client
\* and its case are in the store
C21_Witness ==
    /\ last.op = "update_client"
    /\ last.resp.code = 404
    /\ last.cid \notin DOMAIN clients /\ last.cid < nextId
    /\ \E d \in DOMAIN clients : CasesOfClient(Db, d) # {}

(***************************************************************************)
(* Ranges of the stored values                                             *)
(***************************************************************************)
BoundedAttributes ==
    {"age", "gender", "level_of_schooling", "reading_english_scale",
     "speaking_english_scale", "writing_english_scale", "numeracy_scale",
     "computer_scale", "housing", "income_source", "work_experience",
     "canada_workex", "dep_num", "time_unemployed"}

InRange(f, v) ==
    /\ f = "age" => v >= 18
    /\ f = "gender" => v = 1 \/ v = 2
    /\ f = "level_of_schooling" => v \in 1..14
    /\ f \in {"reading_english_scale", "speaking_english_scale",
              "writing_english_scale", "numeracy_scale", "computer_scale"}
          => v \in 0..10
    /\ f = "housing" => v \in 1..10
    /\ f = "income_source" => v \in 1..11
    /\ f \in {"work_experience", "canada_workex", "dep_num", "time_unemployed"}
          => v >= 0

RowsOfClient(c) ==
    UNION {{[client_id |-> p[1], user_id |-> p[2], n |-> i, row |-> cases[p][i]] :
               i \in 1..Len(cases[p])} : p \in {q \in Pairs : q[1] = c}}

\* C23: get_client_services(c) returns exactly the ClientCase rows whose
\* client_id is c when there is at least one, and fails not-found when there
\* is none, which includes a client that exists and has no case.
C23_ServicesOfClient ==
    last.op = "get_client_services" =>
        IF RowsOfClient(last.cid) # {}
        THEN /\ last.resp = Returned
             /\ result = RowsOfClient(last.cid)
        ELSE /\ last.resp.exc = "HTTPException" /\ last.resp.code = 404
             /\ result = <<>>

C23_Witness ==
    /\ last.op = "get_client_services"
    /\ last.resp = Returned
    /\ Cardinality(result) = 2
    /\ \E p \in Pairs : p[1] # last.cid /\ Len(cases[p]) > 0


(***************************************************************************)
(* The searches over the cases                                             *)
(***************************************************************************)
\* the clients of the store that have a case satisfying P
HasCase(c, P(_)) ==
    \E p \in Pairs : \E i \in 1..Len(cases[p]) : p[1] = c /\ P(cases[p][i])

WithCase(P(_)) == {c \in DOMAIN clients : HasCase(c, P)}

AnyCase(row) == TRUE

\* C24: get_clients_by_success_rate(min_rate) with 0 <= min_rate <= 100
\* returns exactly the clients that have at least one case whose success_rate
\* is at least min_rate, so a client without a case is never returned, not
\* even for min_rate 0; a min_rate outside 0..100 fails validation.
C24_ClientsBySuccessRate ==
    last.op \in {"get_clients_by_success_rate", "GET /search/success-rate"} =>
        IF 0 <= last.data /\ last.data <= 100
        THEN /\ last.resp = Returned
             /\ LET Reaches(row) == /\ row["success_rate"] # None
                                    /\ Val(row["success_rate"]) >= last.data
               IN  result = WithCase(Reaches)
             /\ result \subseteq WithCase(AnyCase)
        ELSE /\ IsValidationFailure(last.resp)
             /\ result = <<>>

C24_Witness ==
    /\ last.op = "get_clients_by_success_rate"
    /\ last.data = 0
    /\ last.resp = Returned
    /\ result # {}
    /\ DOMAIN clients \ result # {}

\* C25: get_clients_by_case_worker(w) fails not-found when no case worker has
\* the id w, and otherwise returns exactly the clients that have a case with
\* user_id = w, which is the empty list when the case worker has none.
C25_ClientsByCaseWorker ==
    last.op = "get_clients_by_case_worker" =>
        IF last.wid \notin UserIds
        THEN /\ last.resp.exc = "HTTPException" /\ last.resp.code = 404
             /\ result = <<>>
        ELSE /\ last.resp = Returned
             /\ result = {c \in DOMAIN clients : Len(cases[<<c, last.wid>>]) > 0}

C25_Witness ==
    /\ last.op = "get_clients_by_case_worker"
    /\ last.resp = Returned
    /\ result = {}
    /\ \E p \in Pairs : Len(cases[p]) > 0

\* C26: get_clients_by_services returns the clients that have at least one
\* case in which every supplied flag has the supplied value, all of them in
\* the same case; a flag that is not supplied constrains nothing, and with no
\* flag supplied the result is every client that has a case.
C26_ClientsByServices ==
    last.op = "get_clients_by_services" =>
        /\ last.resp = Returned
        /\ LET AllFlagsMatch(row) ==
                   \A f \in ServiceFlags :
                       last.data[f] # None => row[f] = last.data[f]
           IN  result = WithCase(AllFlagsMatch)
        /\ (\A f \in ServiceFlags : last.data[f] = None)
              => result = WithCase(AnyCase)

C26_Witness ==
    /\ last.op = "get_clients_by_services"
    /\ last.data["employment_assistance"] = Some(TRUE)
    /\ last.data["life_stabilization"] = Some(FALSE)
    /\ result # {}
    /\ \E c \in DOMAIN clients \ result :
          /\ \E w \in UserIds : cases[<<c, w>>] = <<StabilizedCase>>
          /\ \E w \in UserIds : cases[<<c, w>>] = <<NewCase>>

(***************************************************************************)
(* Reads write nothing                                                     *)
(***************************************************************************)
ReadOperations ==
    {"get_client", "get_clients", "get_clients_by_criteria",
     "get_clients_by_services", "get_client_services",
     "get_clients_by_success_rate", "get_clients_by_case_worker",
     "get_current_model", "predict"}

\* C29: get_client, get_clients, get_clients_by_criteria,
\* get_clients_by_services, get_client_services, get_clients_by_success_rate,
\* get_clients_by_case_worker, get_current_model and predict leave every
\* client and every case as they were, whatever their outcome; predict in
\* particular never writes its estimate into the success_rate of a case.
C29_ReadsLeaveTheStore ==
    [][last'.op \in ReadOperations =>
          /\ clients' = clients
          /\ \A p \in Pairs : cases'[p] = cases[p]
          /\ last'.op = "predict" =>
                \A p \in Pairs : \A i \in 1..Len(cases[p]) :
                    cases'[p][i]["success_rate"] = cases[p][i]["success_rate"]
      ]_vars

C29_Witness ==
    /\ last.op = "predict"
    /\ last.resp = Returned
    /\ cases[<<last.cid, 1>>] = <<AssistedCase>>
    /\ cases[<<last.cid, 2>>] = <<NewCase>>

ColumnOf(k) ==
    CASE k = "employment_status" -> "currently_employed"
      [] k = "age_min" -> "age"
      [] k = "education_level" -> "level_of_schooling"
      [] OTHER -> k

\* the criterion k is supplied with the value False or 0
SuppliedFalsy(k) ==
    \/ k = "employment_status" /\ criteria[k] = Some(FALSE)
    \/ k \in {"dep_num", "reading_english_scale"} /\ criteria[k] = Some(0)

\* C28: a criterion is present exactly when its value is not None:
\* build_filter generates one predicate for each criterion whose value is not
\* None and none for the others, so a criterion supplied as False or 0
\* (employment_status = False, dep_num = 0, reading_english_scale = 0)
\* generates its predicate and restricts the result like any other value.
C28_PresenceIsNotNone ==
    (Searched /\ last.resp = Returned) =>
        \A o \in RegistryOrders :
            /\ Len(build_filter(criteria, o)) = Cardinality(Supplied)
            /\ \A k \in Criteria :
                  (k \in Supplied) <=>
                      \E i \in DOMAIN build_filter(criteria, o) :
                          /\ build_filter(criteria, o)[i].column = ColumnOf(k)
                          /\ build_filter(criteria, o)[i].value = criteria[k]
                          /\ criteria[k] # None
            /\ \A k \in Criteria : SuppliedFalsy(k) =>
                  \A id \in result : clients[id][ColumnOf(k)] = criteria[k]

C28_Witness ==
    /\ Searched /\ last.resp = Returned
    /\ criteria["employment_status"] = Some(FALSE)
    /\ criteria["dep_num"] = Some(0)
    /\ criteria["reading_english_scale"] = Some(0)
    /\ result # {} /\ result # DOMAIN clients

(***************************************************************************)
(* Order of the bound checks                                               *)
(***************************************************************************)
\* the requests that agree with the served one on the three bounded criteria
SameBoundedCriteria ==
    {f \in SampleFilters :
        \A k \in {"education_level", "age_min", "gender"} : f[k] = criteria[k]}

\* C30: a search that violates several of the three bounds reports exactly
\* one failure, the first violated bound in the order education_level,
\* age_min, gender, and which one it reports does not depend on the other
\* criteria of the request.
C30_FirstViolatedBoundIsReported ==
    Searched =>
        /\ EducationOutOfBounds =>
              last.resp = HTTPException(400, "Education level must be between 1 and 14")
        /\ (~EducationOutOfBounds /\ AgeMinOutOfBounds) =>
              last.resp = HTTPException(400, "Minimum age must be at least 18")
        /\ (~EducationOutOfBounds /\ ~AgeMinOutOfBounds /\ GenderOutOfBounds) =>
              last.resp = HTTPException(400, "Gender must be 1 or 2")
        /\ \A f \in SameBoundedCriteria : validate_criteria(f) = last.resp

C30_Witness ==
    /\ Searched
    /\ EducationOutOfBounds /\ AgeMinOutOfBounds /\ GenderOutOfBounds
    /\ criteria["dep_num"] # None
    /\ last.resp = HTTPException(400, "Education level must be between 1 and 14")
    /\ result = <<>>

=============================================================================
